---- MODULE Spec2Model ----
(***************************************************************************)
(* Model of the kink_power_quiz repository:                                *)
(*   src/matching.py         euclidean_match_percent, rank_profiles        *)
(*   src/kink_power_quiz.py  the Streamlit questionnaire script            *)
(*                                                                         *)
(* Number representation.  TLC has integers only, so the floats of the     *)
(* source are represented exactly, without rounding error:                 *)
(*   - a score s (1..5 scale, a mean of four integer ratings in the quiz)  *)
(*     is the integer 4*s ("quarters"); all scores drawn below are         *)
(*     multiples of 1/4, for which the float arithmetic of the source is   *)
(*     exact up to the square root;                                        *)
(*   - acc (a sum of w*(u-p)^2) is the integer 16*acc ("sixteenths");      *)
(*   - d = sqrt(acc) and dmax are kept by their squares, in sixteenths;    *)
(*   - match = max(0, 1 - d/dmax) * 100 is kept as the pair <<num, den>>   *)
(*     with match = 100 * (1 - sqrt(num/den));                             *)
(*   - round(m, 1) is the integer 10 * round(m, 1) ("tenths").             *)
(***************************************************************************)
EXTENDS Integers, Sequences, FiniteSets, TLC

VARIABLES
    \* ---- matching.py: the arguments of a call and its outcome ----
    user_scores,   \* dict base -> score (quarters); a missing key is a missing base
    profiles,      \* list of dicts [id, name, scores]
    weights,       \* <<>> for None, <<dict base -> weight>> otherwise
    top_k,         \* <<>> for None, <<k>> otherwise
    pc,            \* "idle" | "euclid" | "rank": the function called last
    ref,           \* the profile_scores argument of the last euclid call
    res_e,         \* outcome of the last euclidean_match_percent call
    res_r,         \* outcome of the last rank_profiles call
    \* ---- kink_power_quiz.py: one Streamlit session ----
    items_bank,    \* role -> base -> len(qlist) of DOM_ITEMS / SUB_ITEMS
    role,          \* value of the st.radio
    session_state, \* widget key -> rating
    scores,        \* dict base -> total / len(qlist), as [num, den]
    err,           \* "none" or the exception that ended the last script run
    moves          \* slider interactions so far (bounded)

mvars == <<user_scores, profiles, weights, top_k, pc, ref, res_e, res_r>>
qvars == <<items_bank, role, session_state, scores, err, moves>>
vars == <<user_scores, profiles, weights, top_k, pc, ref, res_e, res_r,
          items_bank, role, session_state, scores, err, moves>>

(***************************************************************************)
(* Bounds of the model                                                     *)
(***************************************************************************)
MaxCands == 2      \* longest candidate list
MaxW == 2          \* largest weight
MaxMoves == 2      \* slider interactions per session

(***************************************************************************)
(* matching.py                                                             *)
(***************************************************************************)
BASES == <<"Legitimate", "Reward", "Coercive", "Referent", "Expert", "Informational">>

BaseSet == {BASES[i] : i \in 1..Len(BASES)}

\* dict.get(key, default)
Get(d, key, default) == IF key \in DOMAIN d THEN d[key] ELSE default

DefaultWeight == 1

DefaultScore == 0

\* line 26-27: the max possible difference per base is 4 (from the 1..5 scale)
DMaxFactor == 4

Min(a, b) == IF a < b THEN a ELSE b

\* lines 13-14: weights = {} when None
WeightsOrEmpty(w) == IF w = <<>> THEN <<>> ELSE w[1]

\* AccLoop with the differences added instead of subtracted
RECURSIVE AccLoopSignSlip(_, _, _, _, _, _)
AccLoopSignSlip(i, acc, wsum, u, p, w) ==
    IF i > Len(BASES) THEN [acc |-> acc, wsum |-> wsum]
    ELSE LET base == BASES[i]
             wb == Get(w, base, DefaultWeight)
             ub == Get(u, base, DefaultScore)
             pb == Get(p, base, DefaultScore)
         IN AccLoopSignSlip(i + 1, acc + wb * (ub + pb) * (ub + pb), wsum + wb, u, p, w)

\* AccLoop with the weight's default used for a missing user score
RECURSIVE AccLoopWrongDefault(_, _, _, _, _, _)
AccLoopWrongDefault(i, acc, wsum, u, p, w) ==
    IF i > Len(BASES) THEN [acc |-> acc, wsum |-> wsum]
    ELSE LET base == BASES[i]
             wb == Get(w, base, DefaultWeight)
             ub == Get(u, base, DefaultWeight)
             pb == Get(p, base, DefaultScore)
         IN AccLoopWrongDefault(i + 1, acc + wb * (ub - pb) * (ub - pb), wsum + wb,
                                u, p, w)

\* lines 18-23: the loop over BASES from the i-th base on, entered with acc
\* (in sixteenths) and wsum
RECURSIVE AccLoop(_, _, _, _, _, _)
AccLoop(i, acc, wsum, u, p, w) ==
    IF i > Len(BASES) THEN [acc |-> acc, wsum |-> wsum]
    ELSE LET base == BASES[i]
             wb == Get(w, base, DefaultWeight)
             ub == Get(u, base, DefaultScore)
             pb == Get(p, base, DefaultScore)
         IN AccLoop(i + 1, acc + wb * (ub - pb) * (ub - pb), wsum + wb, u, p, w)

\* line 27: dmax squared, in sixteenths
DMax2(wsum) == IF wsum > 0 THEN DMaxFactor * DMaxFactor * wsum * 16 ELSE 16

\* MatchOf without the max(0.0, ...)
MatchOfUnclamped(d2, dmax2) == [num |-> d2, den |-> dmax2]

\* line 28: max(0.0, 1.0 - d / dmax) * 100.0, as <<num, den>> (see the header)
MatchOf(d2, dmax2) == [num |-> Min(d2, dmax2), den |-> dmax2]

NoMatch == [num |-> 0, den |-> 0]

Failure(e) == [err |-> e, d |-> 0, match |-> NoMatch]

\* lines 8-29
euclidean_match_percent(u, p, weights_arg) ==
    LET w == WeightsOrEmpty(weights_arg)
        s == AccLoop(1, 0, 0, u, p, w)
        dmax2 == DMax2(s.wsum)
    IN IF s.acc < 0 THEN Failure("ValueError")            \* sqrt of a negative
       ELSE IF dmax2 = 0 THEN Failure("ZeroDivisionError") \* d / dmax
       ELSE [err |-> "none", d |-> s.acc, match |-> MatchOf(s.acc, dmax2)]

\* floor(sqrt(n)) for n >= 0, searched in lo..hi
RECURSIVE ISqrt(_, _, _)
ISqrt(n, lo, hi) ==
    IF lo >= hi THEN lo
    ELSE LET mid == (lo + hi + 1) \div 2
         IN IF mid * mid <= n THEN ISqrt(n, mid, hi) ELSE ISqrt(n, lo, mid - 1)

\* line 43: round(m, 1) in tenths, round-half-to-even on the exact value.
\* 10 * m = 1000 - 1000 * sqrt(num/den); den is a multiple of 16.
Round1(m) ==
    LET den16 == m.den \div 16
        j == ISqrt((62500 * m.num) \div den16, 0, 1000)  \* floor(1000*sqrt(num/den))
        lhs == (2 * j + 1) * (2 * j + 1) * den16
        rhs == 250000 * m.num
    IN IF lhs < rhs THEN 1000 - (j + 1)
       ELSE IF lhs > rhs THEN 1000 - j
       ELSE IF (1000 - j) % 2 = 0 THEN 1000 - j ELSE 1000 - (j + 1)

\* InsertDesc that puts r before the elements with an equal key
RECURSIVE InsertDescUnstable(_, _)
InsertDescUnstable(sorted, r) ==
    IF sorted = <<>> THEN <<r>>
    ELSE IF Head(sorted).match_percent > r.match_percent
         THEN <<Head(sorted)>> \o InsertDescUnstable(Tail(sorted), r)
         ELSE <<r>> \o sorted

\* line 45: list.sort(key=match_percent, reverse=True): stable, descending.
\* Insert r behind every element whose key is >= its own.
RECURSIVE InsertDesc(_, _)
InsertDesc(sorted, r) ==
    IF sorted = <<>> THEN <<r>>
    ELSE IF Head(sorted).match_percent >= r.match_percent
         THEN <<Head(sorted)>> \o InsertDesc(Tail(sorted), r)
         ELSE <<r>> \o sorted

RECURSIVE SortDesc(_)
SortDesc(rs) ==
    IF rs = <<>> THEN <<>>
    ELSE InsertDesc(SortDesc(SubSeq(rs, 1, Len(rs) - 1)), rs[Len(rs)])

\* results[:k] of Python, k any integer
SliceTo(rs, k) ==
    IF k >= 0 THEN SubSeq(rs, 1, Min(k, Len(rs)))
    ELSE SubSeq(rs, 1, IF Len(rs) + k > 0 THEN Len(rs) + k ELSE 0)

\* line 46: results[:top_k] if top_k else results
Truncate(rs, k_arg) ==
    IF k_arg = <<>> \/ k_arg[1] = 0 THEN rs ELSE SliceTo(rs, k_arg[1])

\* lines 37-44: the loop over profiles from the i-th on, entered with results;
\* an exception of euclidean_match_percent ends the call
RECURSIVE Collect(_, _, _, _, _)
Collect(i, results, u, ps, w) ==
    IF i > Len(ps) THEN [err |-> "none", results |-> results]
    ELSE LET e == euclidean_match_percent(u, ps[i].scores, w)
         IN IF e.err # "none" THEN [err |-> e.err, results |-> <<>>]
            ELSE Collect(i + 1,
                         Append(results, [id |-> ps[i].id, name |-> ps[i].name,
                                          match_percent |-> Round1(e.match)]),
                         u, ps, w)

\* lines 31-46
rank_profiles(u, ps, w, k_arg) ==
    LET c == Collect(1, <<>>, u, ps, w)
    IN IF c.err # "none" THEN c
       ELSE [err |-> "none", results |-> Truncate(SortDesc(c.results), k_arg)]

(***************************************************************************)
(* Calls of matching.py on arguments drawn from bounded sets               *)
(***************************************************************************)
\* marks a base that the dict does not hold
Absent == 0 - 1

\* A profile whose first two bases are f and s (or missing) and whose other
\* bases are 3.0
MkProfile(f, s) ==
    [b \in BaseSet \ ((IF f = Absent THEN {BASES[1]} ELSE {}) \cup
                      (IF s = Absent THEN {BASES[2]} ELSE {})) |->
        IF b = BASES[1] THEN f ELSE IF b = BASES[2] THEN s ELSE 12]

\* {}, and profiles with first base missing or 3.25
UserProfiles == {<<>>, MkProfile(Absent, 12), MkProfile(13, 12)}

\* reference profiles: first base 3.0, 3.25 or 5.0; second base 3.0 or missing
CandScores ==
    {MkProfile(12, 12), MkProfile(20, 12), MkProfile(12, Absent), MkProfile(13, Absent)}

WeightVals == (0 - 1)..MaxW

WeightDicts ==
    {<<>>} \cup {[b \in {BASES[1]} |-> x] : x \in WeightVals}
           \cup {[b \in BaseSet |-> IF b = BASES[1] THEN xy[1] ELSE xy[2]] :
                   xy \in WeightVals \X WeightVals}

WeightArgs == {<<>>} \cup {<<w>> : w \in WeightDicts}

TopKArgs == {<<>>} \cup {<<k>> : k \in (0 - 1)..(MaxCands + 1)}

NameOf(i) == "profile " \o ToString(i)

NoResultE == [err |-> "not called", d |-> 0, match |-> NoMatch]

NoResultR == [err |-> "not called", results |-> <<>>]

MatchIdle ==
    /\ user_scores = <<>>
    /\ profiles = <<>>
    /\ weights = <<>>
    /\ top_k = <<>>
    /\ pc = "idle"
    /\ ref = <<>>
    /\ res_e = NoResultE
    /\ res_r = NoResultR

InitMatch ==
    /\ user_scores \in UserProfiles
    /\ \E n \in 0..MaxCands :
         \E f \in [1..n -> CandScores] :
            profiles = [i \in 1..n |-> [id |-> i, name |-> NameOf(i), scores |-> f[i]]]
    /\ weights \in WeightArgs
    /\ top_k \in TopKArgs
    /\ pc = "idle"
    /\ ref = <<>>
    /\ res_e = NoResultE
    /\ res_r = NoResultR

\* euclidean_match_percent(user_scores, r, weights), r the user's own profile or
\* the scores of a candidate
CallEuclid ==
    /\ \E r \in {user_scores} \cup {profiles[i].scores : i \in 1..Len(profiles)} :
         /\ ref' = r
         /\ res_e' = euclidean_match_percent(user_scores, r, weights)
    /\ pc' = "euclid"
    /\ res_r' = NoResultR
    /\ UNCHANGED <<user_scores, profiles, weights, top_k>>
    /\ UNCHANGED qvars

\* rank_profiles(user_scores, profiles, weights, top_k)
CallRank ==
    /\ res_r' = rank_profiles(user_scores, profiles, weights, top_k)
    /\ pc' = "rank"
    /\ ref' = <<>>
    /\ res_e' = NoResultE
    /\ UNCHANGED <<user_scores, profiles, weights, top_k>>
    /\ UNCHANGED qvars

(***************************************************************************)
(* kink_power_quiz.py                                                      *)
(***************************************************************************)
Roles == <<"Dominant / Top", "Submissive / Bottom">>

\* lines 15-52 and 54-91: every base has four statements; only the length of
\* each list matters to the script
DOM_ITEMS == [b \in BaseSet |-> 4]

SUB_ITEMS == [b \in BaseSet |-> 4]

SourceBank == [dom |-> DOM_ITEMS, sub |-> SUB_ITEMS]

\* line 102
items(r, bank) == IF r = Roles[1] THEN bank.dom ELSE bank.sub

RatingMin == 1

RatingMax == 5

RatingDefault == 3

\* Key without the role
KeyWithoutRole(r, base, i) == base \o "-" \o ToString(i)

\* line 114: f"{role}-{base}-{i}"
Key(r, base, i) == r \o "-" \o base \o "-" \o ToString(i)

\* SliderValue of a slider that does not read its stored value
SliderValueIgnoresState(ss, k) == RatingDefault

\* line 115: st.slider(..., value=3, key=key) returns the value stored under
\* key, storing the default first when the key is new
SliderValue(ss, k) == Get(ss, k, RatingDefault)

SliderState(ss, k) == IF k \in DOMAIN ss THEN ss ELSE ss @@ (k :> RatingDefault)

\* lines 111-115 for one base with n statements: the sliders from the i-th
\* on, entered with total and the widget state ss
RECURSIVE SliderLoop(_, _, _, _, _, _)
SliderLoop(i, n, total, r, base, ss) ==
    IF i > n THEN [total |-> total, ss |-> ss]
    ELSE SliderLoop(i + 1, n, total + SliderValue(ss, Key(r, base, i)), r, base,
                    SliderState(ss, Key(r, base, i)))

\* line 116: total / len(qlist), kept as the fraction
Divide(total, n) == [num |-> total, den |-> n]

\* lines 108-116: the loop over the dict from its i-th base on, entered with
\* the scores so far and the widget state; a ZeroDivisionError ends the run
RECURSIVE ScriptRun(_, _, _, _, _)
ScriptRun(i, sc, r, bank, ss) ==
    IF i > Len(BASES) THEN [ss |-> ss, scores |-> sc, err |-> "none"]
    ELSE LET base == BASES[i]
             n == items(r, bank)[base]
             loop == SliderLoop(1, n, 0, r, base, ss)
         IN IF n = 0
            THEN [ss |-> ss, scores |-> sc, err |-> "ZeroDivisionError"]
            ELSE ScriptRun(i + 1, sc @@ (base :> Divide(loop.total, n)), r, bank, loop.ss)

\* one run of the script, top to bottom
Rerun(r, bank, ss) == ScriptRun(1, <<>>, r, bank, ss)

\* the bases whose sliders the user moves
TouchedBases == {BASES[1], BASES[Len(BASES)]}

\* the source's bank, and banks like it with one list of one role cut to n
\* statements (n = 0: a category without statements)
CutBank(rl, b, n) ==
    IF rl = Roles[1]
    THEN [dom |-> [DOM_ITEMS EXCEPT ![b] = n], sub |-> SUB_ITEMS]
    ELSE [dom |-> DOM_ITEMS, sub |-> [SUB_ITEMS EXCEPT ![b] = n]]

Banks ==
    {SourceBank} \cup {CutBank(Roles[ri], b, 0) : ri \in 1..Len(Roles), b \in BaseSet}

\* the first run of a session: the radio shows its first option, no widget
\* state exists yet
FirstRun(bank) ==
    \E run \in {Rerun(Roles[1], bank, <<>>)} :
       /\ items_bank = bank
       /\ role = Roles[1]
       /\ session_state = run.ss
       /\ scores = run.scores
       /\ err = run.err
       /\ moves = 0

InitQuiz == FirstRun(SourceBank)

InitScore == \E bank \in Banks : FirstRun(bank)

\* the user picks the other option of the radio (line 96); the script reruns
SwitchRole ==
    /\ \E r \in {Roles[i] : i \in 1..Len(Roles)} :
         /\ r # role
         /\ role' = r
         /\ \E run \in {Rerun(r, items_bank, session_state)} :
               /\ session_state' = run.ss
               /\ scores' = run.scores
               /\ err' = run.err
    /\ UNCHANGED <<items_bank, moves>>
    /\ UNCHANGED mvars

\* the user drags a slider shown by the last run to another value (line 115);
\* the script reruns
MoveSlider ==
    /\ moves < MaxMoves
    /\ \E base \in TouchedBases \cap DOMAIN scores :
         \E i \in 1..items(role, items_bank)[base] :
            \E v \in RatingMin..RatingMax :
               /\ session_state[Key(role, base, i)] # v
               /\ \E run \in {Rerun(role, items_bank,
                                     [session_state EXCEPT ![Key(role, base, i)] = v])} :
                     /\ session_state' = run.ss
                     /\ scores' = run.scores
                     /\ err' = run.err
    /\ moves' = moves + 1
    /\ UNCHANGED <<items_bank, role>>
    /\ UNCHANGED mvars

(***************************************************************************)
(* Specifications                                                          *)
(***************************************************************************)
\* arguments for matching.py; the questionnaire is at its first run
InitMatchCalls == InitQuiz /\ InitMatch

\* a fresh session of the questionnaire; matching.py is not called
InitSession == MatchIdle /\ InitQuiz

\* a fresh session over any of the banks
InitScoring == MatchIdle /\ InitScore

NextMatch == CallEuclid \/ CallRank

NextQuiz == SwitchRole \/ MoveSlider

\* calls of matching.py
SpecMatch == InitMatchCalls /\ [][NextMatch]_vars

\* a session of the questionnaire as shipped
SpecQuiz == InitSession /\ [][NextQuiz]_vars

\* the scoring loop of the questionnaire over question banks of any shape
SpecScore == InitScoring /\ [][NextQuiz]_vars

(***************************************************************************)
(* Properties                                                              *)
(***************************************************************************)
Results == res_r.results

RankReturned == pc = "rank" /\ res_r.err = "none"

EuclidCalled == pc = "euclid"

WeightDict == IF weights = <<>> THEN <<>> ELSE weights[1]

NonNegativeWeights == \A b \in DOMAIN WeightDict : WeightDict[b] >= 0

SomeNegativeWeight == \E b \in DOMAIN WeightDict : WeightDict[b] < 0

\* the weight the call uses for base b
WeightUsed(b) == IF b \in DOMAIN WeightDict THEN WeightDict[b] ELSE 1

RECURSIVE SumWeights(_)
SumWeights(i) == IF i = 0 THEN 0 ELSE SumWeights(i - 1) + WeightUsed(BASES[i])

\* the unrounded match_percent of the candidate with identifier c
FullMatch(c) == euclidean_match_percent(user_scores, profiles[c].scores, weights).match

\* ma > mb as percentages: 100 * (1 - sqrt(num/den)) falls as num/den grows
MatchGreater(ma, mb) == ma.num * mb.den < mb.num * ma.den

\* C1: rank_profiles returns one result per candidate (no top_k), each carrying
\* the candidate's id, name and rounded match_percent; the output is ordered by
\* match_percent descending, and of two results with the same match_percent
\* the one that is first in the input list is first in the output.
C1_RankSortedStable ==
    RankReturned =>
        /\ top_k = <<>> =>
              /\ Len(Results) = Len(profiles)
              /\ {Results[i].id : i \in 1..Len(Results)} = 1..Len(profiles)
        /\ \A i \in 1..Len(Results) :
              /\ Results[i].id \in 1..Len(profiles)
              /\ Results[i].name = profiles[Results[i].id].name
              /\ Results[i].match_percent = Round1(FullMatch(Results[i].id))
        /\ \A i, j \in 1..Len(Results) :
              i < j =>
                 /\ Results[i].match_percent >= Results[j].match_percent
                 /\ Results[i].match_percent = Results[j].match_percent
                       => Results[i].id < Results[j].id

\* two different candidates tie and keep their input order
C1_Witness ==
    /\ RankReturned
    /\ NonNegativeWeights
    /\ top_k = <<>>
    /\ Len(Results) = 2
    /\ profiles[1].scores # profiles[2].scores
    /\ Results[1].match_percent = Results[2].match_percent
    /\ Results[1].id = 1

\* C2: the output order follows the unrounded match_percent: a candidate whose
\* unrounded match_percent is strictly greater than another's comes before it.
C2_OrderByFullPrecision ==
    RankReturned =>
        \A i, j \in 1..Len(Results) :
            MatchGreater(FullMatch(Results[i].id), FullMatch(Results[j].id)) => i < j

\* C3: top_k = 0 gives an empty sequence, top_k above the number of candidates
\* gives all of them, and 0 < top_k <= number of candidates gives the first
\* top_k entries of the sorted result.
C3_TopKTruncates ==
    (RankReturned /\ top_k # <<>> /\ top_k[1] >= 0) =>
        LET sorted == rank_profiles(user_scores, profiles, weights, <<>>).results
        IN Results = SubSeq(sorted, 1, Min(top_k[1], Len(sorted)))

\* C4: with every weight >= 0 (all six 0 included) euclidean_match_percent
\* returns without error, the distance is >= 0 and 0 <= match_percent <= 100:
\* no negative percentage, no division by zero.  (match = 100*(1 - sqrt(num/den))
\* lies in [0, 100] exactly when 0 <= num <= den and den > 0.)
C4_TotalAndBounded ==
    (EuclidCalled /\ NonNegativeWeights) =>
        /\ res_e.err = "none"
        /\ res_e.d >= 0
        /\ res_e.match.den > 0
        /\ 0 <= res_e.match.num
        /\ res_e.match.num <= res_e.match.den

\* the distance exceeds dmax and the percentage is clamped to 0
C4_Witness ==
    /\ EuclidCalled
    /\ NonNegativeWeights
    /\ res_e.err = "none"
    /\ res_e.d > res_e.match.den
    /\ res_e.match.num = res_e.match.den

\* C5: for non-negative weights with positive sum, a profile matched against
\* itself has distance 0 and match_percent 100.
C5_IdenticalProfiles ==
    (EuclidCalled /\ ref = user_scores /\ NonNegativeWeights /\ SumWeights(Len(BASES)) > 0) =>
        /\ res_e.err = "none"
        /\ res_e.d = 0
        /\ res_e.match.num = 0
        /\ res_e.match.den > 0

\* a profile with a missing base, matched against itself under explicit weights
C5_Witness ==
    /\ EuclidCalled
    /\ ref = user_scores
    /\ DOMAIN user_scores # BaseSet
    /\ DOMAIN user_scores # {}
    /\ DOMAIN WeightDict = BaseSet
    /\ NonNegativeWeights
    /\ SumWeights(Len(BASES)) > 0
    /\ res_e.match.num = 0

\* a dict with every omitted base made explicit
FillScores(d) == [b \in BaseSet |-> IF b \in DOMAIN d THEN d[b] ELSE 0]

FillWeights == <<[b \in BaseSet |-> WeightUsed(b)]>>

\* C6: a base missing from either profile counts as 0 and a base missing from
\* weights as weight 1.0: writing the omitted entries out gives the identical
\* (distance, match_percent).
C6_MissingMeansDefault ==
    EuclidCalled =>
        /\ res_e = euclidean_match_percent(FillScores(user_scores), ref, weights)
        /\ res_e = euclidean_match_percent(user_scores, FillScores(ref), weights)
        /\ res_e = euclidean_match_percent(user_scores, ref, FillWeights)
        /\ res_e = euclidean_match_percent(FillScores(user_scores), FillScores(ref),
                                           FillWeights)

\* both profiles and the weights omit a base, and the profiles differ
C6_Witness ==
    /\ EuclidCalled
    /\ DOMAIN user_scores # BaseSet
    /\ DOMAIN ref # BaseSet
    /\ DOMAIN ref # DOMAIN user_scores
    /\ weights # <<>>
    /\ DOMAIN WeightDict = {BASES[1]}
    /\ res_e.err = "none"
    /\ res_e.d > 0

\* C7: a call of euclidean_match_percent or rank_profiles with some weight < 0
\* ends in an error; no distance or match_percent is computed from it.
C7_NegativeWeightRejected ==
    (pc # "idle" /\ SomeNegativeWeight) =>
        /\ pc = "euclid" => res_e.err # "none"
        /\ pc = "rank" => res_r.err # "none"

\* the sum of the ratings stored for the n statements of base b of role r
RECURSIVE SumRatings(_, _, _)
SumRatings(r, b, n) ==
    IF n = 0 THEN 0 ELSE SumRatings(r, b, n - 1) + session_state[Key(r, b, n)]

ActiveItems == items(role, items_bank)

\* C8: the score of each category of the active role is the sum of the ratings
\* of its statements divided by their number; the profile holds exactly the
\* categories of the active role's bank; every score lies in [1, 5], and is
\* exactly 3.0 when all of the category's ratings are 3.
C8_ScoreIsMean ==
    /\ err = "none"
    /\ DOMAIN scores = DOMAIN ActiveItems
    /\ \A b \in DOMAIN ActiveItems :
          /\ scores[b].den = ActiveItems[b]
          /\ scores[b].num = SumRatings(role, b, ActiveItems[b])
          /\ scores[b].den <= scores[b].num
          /\ scores[b].num <= 5 * scores[b].den
          /\ (\A i \in 1..ActiveItems[b] : session_state[Key(role, b, i)] = 3)
                => scores[b].num = 3 * scores[b].den

\* the submissive bank is scored with two ratings moved, one up and one down
C8_Witness ==
    /\ role = Roles[2]
    /\ err = "none"
    /\ \E b \in DOMAIN scores : scores[b].num > 3 * scores[b].den
    /\ \E b \in DOMAIN scores : scores[b].num < 3 * scores[b].den

Sliders ==
    UNION {{<<Roles[ri], b, i>> : i \in 1..items(Roles[ri], SourceBank)[b]} :
             ri \in 1..Len(Roles), b \in BaseSet}

KeyOf(t) == Key(t[1], t[2], t[3])

KeyInjective == \A s, t \in Sliders : KeyOf(s) = KeyOf(t) => s = t

\* a step that keeps the role keeps what is stored under the other role's keys
OtherRoleKept ==
    role' = role =>
        \A t \in Sliders :
            (t[1] # role /\ KeyOf(t) \in DOMAIN session_state) =>
                /\ KeyOf(t) \in DOMAIN session_state'
                /\ session_state'[KeyOf(t)] = session_state[KeyOf(t)]

ScoresFromActiveKeys ==
    \A b \in DOMAIN scores :
        scores[b] = Divide(SumRatings(role, b, ActiveItems[b]), ActiveItems[b])

\* C10: the slider key is injective over (role, category, position); a rating
\* changed while answering as one role leaves the ratings stored under the
\* other role's keys as they were; each category score is computed from the
\* active role's keys only.
C10_KeysIsolateRoles ==
    /\ [](KeyInjective /\ ScoresFromActiveKeys)
    /\ [][OtherRoleKept]_vars

\* both roles hold a moved rating, the submissive one made last
C10_Witness ==
    /\ role = Roles[2]
    /\ \E t \in Sliders : t[1] = Roles[1] /\ KeyOf(t) \in DOMAIN session_state
                          /\ session_state[KeyOf(t)] # 3
    /\ \E t \in Sliders : t[1] = Roles[2] /\ KeyOf(t) \in DOMAIN session_state
                          /\ session_state[KeyOf(t)] # 3

====
